---- MODULE Spec2Model ----
(***************************************************************************)
(* Orthanc: the DICOM attribute map (Core/DicomFormat/DicomMap.cpp) and    *)
(* the static-resource responder (Core/HttpServer/FilesystemHttpHandler).  *)
(*                                                                         *)
(* A DicomMap is a std::map<DicomTag, DicomValue*> that owns the values it *)
(* points to.  The model keeps the pointers: map_[m] is a function from    *)
(* tags to addresses, heap maps every live address to the content of the   *)
(* DicomValue stored there.                                                *)
(***************************************************************************)
EXTENDS Integers, Sequences, FiniteSets, TLC

\* ------------------------------------------------------------------ bounds
NumMaps == 2        \* DicomMap objects the callers hold
MaxLen == 2         \* length of the tag lists handed to ExtractTags
MaxDepth == 2       \* length of the URIs sent to the responder

\* -------------------------------------------------------------------- tags
\* DicomTag(group, element), ordered group-major like DicomTag::operator<
DicomTag(group, element) == group * 65536 + element

patientTags ==
  << DicomTag(16, 16),     \* 0010,0010 PatientName
     DicomTag(16, 32),     \* 0010,0020 PatientID
     DicomTag(16, 48),     \* 0010,0030 PatientBirthDate
     DicomTag(16, 64),     \* 0010,0040 PatientSex
     DicomTag(16, 4096) >> \* 0010,1000 OtherPatientIDs

studyTags ==
  << DicomTag(8, 32),      \* 0008,0020 StudyDate
     DicomTag(8, 48),      \* 0008,0030 StudyTime
     DicomTag(8, 80),      \* 0008,0050 AccessionNumber
     DicomTag(8, 4144),    \* 0008,1030 StudyDescription
     DicomTag(32, 13),     \* 0020,000d StudyInstanceUID
     DicomTag(32, 16) >>   \* 0020,0010 StudyID

seriesTags ==
  << DicomTag(8, 33),      \* 0008,0021 SeriesDate
     DicomTag(8, 49),      \* 0008,0031 SeriesTime
     DicomTag(8, 96),      \* 0008,0060 Modality
     DicomTag(8, 112),     \* 0008,0070 Manufacturer
     DicomTag(8, 4112),    \* 0008,1010 StationName
     DicomTag(8, 4158),    \* 0008,103e SeriesDescription
     DicomTag(24, 21),     \* 0018,0015 BodyPartExamined
     DicomTag(24, 36),     \* 0018,0024 SequenceName
     DicomTag(24, 4144),   \* 0018,1030 ProtocolName
     DicomTag(32, 14),     \* 0020,000e SeriesInstanceUID
     DicomTag(32, 17),     \* 0020,0011 SeriesNumber
     DicomTag(32, 4098),   \* 0020,1002 ImagesInAcquisition
     DicomTag(84, 129) >>  \* 0054,0081 NumberOfSlices

instanceTags ==
  << DicomTag(8, 18),      \* 0008,0012 InstanceCreationDate
     DicomTag(8, 19),      \* 0008,0013 InstanceCreationTime
     DicomTag(8, 24),      \* 0008,0018 SOPInstanceUID
     DicomTag(32, 18),     \* 0020,0012 AcquisitionNumber
     DicomTag(32, 19),     \* 0020,0013 InstanceNumber
     DicomTag(40, 8),      \* 0028,0008 NumberOfFrames
     DicomTag(84, 4912) >> \* 0054,1330 ImageIndex

\* DicomTag::ACCESSION_NUMBER, PATIENT_ID, STUDY_UID, SERIES_UID
ACCESSION_NUMBER == DicomTag(8, 80)
PATIENT_ID == DicomTag(16, 32)
STUDY_UID == DicomTag(32, 13)
SERIES_UID == DicomTag(32, 14)
MODALITY == DicomTag(8, 96)

Range(s) == { s[i] : i \in 1..Len(s) }

VARIABLES
  map_,       \* map_[m]: the std::map of DicomMap m, tag -> address
  alive,      \* alive[m]: DicomMap m is constructed and not yet destroyed
  heap,       \* live address -> content of the DicomValue at that address
  badAccess,  \* a delete or a read was applied to an address that is not live
  last,       \* the last operation, its arguments and its outcome
  listDirectoryContent_, \* FilesystemHttpHandler::listDirectoryContent_
  pimpl_,     \* FilesystemHttpHandler::PImpl: baseUri_ and root_
  handler,    \* "none" | "ok" | "failed": how the constructor ended
  fs,         \* the file system: path -> "file" | "dir"
  request,    \* the last request handled, listDirectoryContent_ as it was
              \* then, and the file-system queries the request made
  output      \* what Handle sent to the HttpOutput for the last request

vars == << map_, alive, heap, badAccess, last,
           listDirectoryContent_, pimpl_, handler, fs, request, output >>

dicomVars == << map_, alive, heap, badAccess, last >>
httpVars == << listDirectoryContent_, pimpl_, handler, fs, request, output >>

Maps == 1..NumMaps

\* ------------------------------------------------------------ std::map
EmptyMap == [t \in {} |-> 0]

Find(f, tag) == tag \in DOMAIN f

Insert(f, tag, p) ==
  IF tag \in DOMAIN f THEN f
  ELSE [t \in DOMAIN f \cup {tag} |-> IF t = tag THEN p ELSE f[t]]

Assign(f, tag, p) == [t \in DOMAIN f |-> IF t = tag THEN p ELSE f[t]]

Erase(f, tag) == [t \in DOMAIN f \ {tag} |-> f[t]]

\* the tags of a std::map in iteration order (ascending)
RECURSIVE Ascending(_)
Ascending(S) ==
  IF S = {} THEN << >>
  ELSE LET lo == CHOOSE x \in S : \A y \in S : x <= y
       IN << lo >> \o Ascending(S \ {lo})

\* ---------------------------------------------------------------- store
\* The store an operation works on: the maps, the heap and the double-free
\* flag.  Operations are functions from stores to stores.
Store == [map_ |-> map_, heap |-> heap, badAccess |-> badAccess]

\* operator new: an address that is not live
NewAddress(S) ==
  CHOOSE p \in 1..(Cardinality(DOMAIN S.heap) + 1) : p \notin DOMAIN S.heap

\* new DicomString(content): the store with the value allocated at address p
Allocate(S, p, content) ==
  [S EXCEPT !.heap = [q \in DOMAIN S.heap \cup {p} |->
                        IF q = p THEN content ELSE S.heap[q]]]

\* delete p
Delete(S, p) ==
  IF p \in DOMAIN S.heap
  THEN [S EXCEPT !.heap = [q \in DOMAIN S.heap \ {p} |-> S.heap[q]]]
  ELSE [S EXCEPT !.badAccess = TRUE]

\* what a read through p yields; reading a destroyed value yields garbage
Garbage == "<destroyed>"
ContentAt(S, p) == IF p \in DOMAIN S.heap THEN S.heap[p] ELSE Garbage

\* DicomValue::Clone(): a new value with the content of the one at p
CloneValue(S, p) ==
  LET q == NewAddress(S)
      S1 == Allocate(S, q, ContentAt(S, p))
  IN [S |-> IF p \in DOMAIN S.heap THEN S1
            ELSE [S1 EXCEPT !.badAccess = TRUE],
      p |-> q]

\* SetValue that overwrites the pointer and does not delete the old value
SetValueLeaks(S, m, tag, value) ==
  IF Find(S.map_[m], tag)
  THEN [S EXCEPT !.map_[m] = Assign(@, tag, value)]
  ELSE [S EXCEPT !.map_[m] = Insert(@, tag, value)]

\* SetValue that relies on std::map::insert, which keeps an existing entry
SetValueInsertsOnly(S, m, tag, value) ==
  [S EXCEPT !.map_[m] = Insert(@, tag, value)]

\* ------------------------------------------------------------- DicomMap
\* SetValue(group, element, DicomValue* value)
SetValue(S, m, tag, value) ==
  IF Find(S.map_[m], tag)
  THEN LET S1 == Delete(S, S.map_[m][tag])
       IN [S1 EXCEPT !.map_[m] = Assign(@, tag, value)]
  ELSE [S EXCEPT !.map_[m] = Insert(@, tag, value)]

\* SetValue(tag, const std::string& str): SetValue(tag, new DicomString(str))
SetValueString(S, m, tag, str) ==
  LET p == NewAddress(S)
  IN SetValue(Allocate(S, p, str), m, tag, p)

\* SetValue(tag, const DicomValue& value): SetValue(tag, value.Clone())
SetValueCopy(S, m, tag, p) ==
  LET c == CloneValue(S, p)
  IN SetValue(c.S, m, tag, c.p)

\* HasTag(tag)
HasTag(S, m, tag) == Find(S.map_[m], tag)

\* One statement after another: the store S left by a statement is computed
\* before the next statement e starts (TLC evaluates arguments on demand).
Then(S, e) == IF S = S THEN e ELSE S

RECURSIVE DeleteEach(_, _, _, _)
DeleteEach(S, m, its, i) ==
  IF i > Len(its) THEN S
  ELSE LET S1 == Delete(S, S.map_[m][its[i]])
       IN Then(S1, DeleteEach(S1, m, its, i + 1))

\* Clear()
Clear(S, m) ==
  LET S1 == DeleteEach(S, m, Ascending(DOMAIN S.map_[m]), 1)
  IN [S1 EXCEPT !.map_[m] = EmptyMap]

RECURSIVE ExtractLoop(_, _, _, _, _)
ExtractLoop(S, self, result, tags, i) ==
  IF i > Len(tags) THEN S
  ELSE IF Find(S.map_[self], tags[i])
       THEN LET c == CloneValue(S, S.map_[self][tags[i]])
                S1 == SetValue(c.S, result, tags[i], c.p)
            IN Then(S1, ExtractLoop(S1, self, result, tags, i + 1))
       ELSE ExtractLoop(S, self, result, tags, i + 1)

\* ExtractTags without the result.Clear() it starts with
ExtractTagsKeepsResult(S, self, result, tags) ==
  ExtractLoop(S, self, result, tags, 1)

\* self.ExtractTags(result, tags, count)
ExtractTags(S, self, result, tags) ==
  LET S1 == Clear(S, result)
  IN Then(S1, ExtractLoop(S1, self, result, tags, 1))

ExtractPatientInformation(S, self, result) ==
  ExtractTags(S, self, result, patientTags)

ExtractStudyInformation(S, self, result) ==
  ExtractTags(S, self, result, studyTags)

\* ExtractSeriesInformation handed the registry of the level above
ExtractSeriesInformationByStudy(S, self, result) ==
  ExtractTags(S, self, result, studyTags)

ExtractSeriesInformation(S, self, result) ==
  ExtractTags(S, self, result, seriesTags)

ExtractInstanceInformation(S, self, result) ==
  ExtractTags(S, self, result, instanceTags)

RECURSIVE CloneLoop(_, _, _, _, _)
CloneLoop(S, self, result, its, i) ==
  IF i > Len(its) THEN S
  ELSE LET c == CloneValue(S, S.map_[self][its[i]])
           S1 == [c.S EXCEPT !.map_[result] = Insert(@, its[i], c.p)]
       IN Then(S1, CloneLoop(S1, self, result, its, i + 1))

\* Clone that copies the pointers and not the values they point to
CloneShares(S, self, result) ==
  [S EXCEPT !.map_[result] = S.map_[self]]

\* self.Clone(), the new DicomMap being result
Clone(S, self, result) ==
  CloneLoop([S EXCEPT !.map_[result] = EmptyMap], self, result,
            Ascending(DOMAIN S.map_[self]), 1)

\* GetValue without the test against map_.end()
GetValueUnchecked(S, m, tag) ==
  [thrown |-> FALSE, p |-> IF Find(S.map_[m], tag) THEN S.map_[m][tag] ELSE 0]

\* GetValue(tag): throws, or returns a reference to the stored value
GetValue(S, m, tag) ==
  IF ~Find(S.map_[m], tag)
  THEN [thrown |-> TRUE, p |-> 0]
  ELSE [thrown |-> FALSE, p |-> S.map_[m][tag]]

\* Remove that destroys the value and leaves its entry in the map
RemoveKeepsEntry(S, m, tag) ==
  IF Find(S.map_[m], tag) THEN Delete(S, S.map_[m][tag]) ELSE S

\* Remove(tag)
Remove(S, m, tag) ==
  IF Find(S.map_[m], tag)
  THEN LET S1 == Delete(S, S.map_[m][tag])
       IN [S1 EXCEPT !.map_[m] = Erase(@, tag)]
  ELSE S

RECURSIVE TemplateLoop(_, _, _, _)
TemplateLoop(S, result, tags, i) ==
  IF i > Len(tags) THEN S
  ELSE LET S1 == SetValueString(S, result, tags[i], "")
       IN Then(S1, TemplateLoop(S1, result, tags, i + 1))

\* SetupFindTemplate without the result.Clear() it starts with
SetupFindTemplateKeepsResult(S, result, tags) ==
  TemplateLoop(S, result, tags, 1)

\* SetupFindTemplate(result, tags, count)
SetupFindTemplate(S, result, tags) ==
  LET S1 == Clear(S, result)
  IN Then(S1, TemplateLoop(S1, result, tags, 1))

SetupFindPatientTemplate(S, result) ==
  SetupFindTemplate(S, result, patientTags)

SetupFindStudyTemplate(S, result) ==
  LET S1 == SetupFindTemplate(S, result, studyTags)
      S2 == SetValueString(S1, result, ACCESSION_NUMBER, "")
  IN Then(S1, Then(S2, SetValueString(S2, result, PATIENT_ID, "")))

SetupFindSeriesTemplate(S, result) ==
  LET S1 == SetupFindTemplate(S, result, seriesTags)
      S2 == SetValueString(S1, result, ACCESSION_NUMBER, "")
      S3 == SetValueString(S2, result, PATIENT_ID, "")
  IN Then(S1, Then(S2, Then(S3, SetValueString(S3, result, STUDY_UID, ""))))

SetupFindInstanceTemplate(S, result) ==
  LET S1 == SetupFindTemplate(S, result, instanceTags)
      S2 == SetValueString(S1, result, ACCESSION_NUMBER, "")
      S3 == SetValueString(S2, result, PATIENT_ID, "")
      S4 == SetValueString(S3, result, STUDY_UID, "")
  IN Then(S1, Then(S2, Then(S3, Then(S4,
       SetValueString(S4, result, SERIES_UID, "")))))

\* self.CopyTagIfExists(source, tag)
CopyTagIfExists(S, self, source, tag) ==
  IF HasTag(S, source, tag)
  THEN SetValueCopy(S, self, tag, GetValue(S, source, tag).p)
  ELSE S

\* ------------------------------------------------- addresses, renamed
\* Addresses carry no meaning beyond their identity.  After every operation
\* they are renamed by where they are held: the address in the k-th slot (maps
\* in order, tags ascending) becomes k, an address held by no slot follows.
RECURSIVE SlotsBefore(_, _)
SlotsBefore(S, m) ==
  IF m = 1 THEN 0
  ELSE SlotsBefore(S, m - 1) + Cardinality(DOMAIN S.map_[m - 1])

\* the slots of all maps, numbered: << number, address held >>
Slots(S) ==
  UNION { LET f == S.map_[m]
              before == SlotsBefore(S, m)
          IN { << before + Cardinality({ u \in DOMAIN f : u <= t }), f[t] >> :
               t \in DOMAIN f } : m \in Maps }

Rename(S) ==
  LET slots == Slots(S)
      held == { s[2] : s \in slots }
      loose == DOMAIN S.heap \ held
      Least(N) == CHOOSE x \in N : \A y \in N : x <= y
      names == { << p, Least({ s[1] : s \in { x \in slots : x[2] = p } }) >> :
                 p \in held }
               \cup
               { << p, Cardinality(slots) + Cardinality({ q \in loose : q <= p }) >> :
                 p \in loose }
      NameOf(p) == (CHOOSE n \in names : n[1] = p)[2]
      AddressOf(k) == (CHOOSE n \in names : n[2] = k)[1]
  IN [map_ |-> [m \in Maps |->
                  [t \in DOMAIN S.map_[m] |-> NameOf(S.map_[m][t])]],
      heap |-> [k \in { n[2] : n \in { x \in names : x[1] \in DOMAIN S.heap } } |->
                  S.heap[AddressOf(k)]],
      badAccess |-> S.badAccess]

\* --------------------------------------------------------------- inputs
\* the tags and contents the callers pass to SetValue, Remove, GetValue,
\* CopyTagIfExists and, in lists, to ExtractTags
InputTags == { PATIENT_ID, MODALITY }
Contents == { "", "v" }

\* the same, for the specification that runs every operation
FewTags == { PATIENT_ID }
FewContents == { "v" }

\* the tag lists of length n or less over the tags T
RECURSIVE TagLists(_, _)
TagLists(T, n) ==
  IF n = 0 THEN { << >> }
  ELSE LET shorter == TagLists(T, n - 1)
       IN shorter \cup { Append(l, t) : l \in { x \in shorter : Len(x) = n - 1 },
                                        t \in T }

\* The last call: op, the map it was called on (self), the other map it was
\* given, its tag, tag list and content arguments, and its outcome.  found says
\* what the call met: the tag was present (SetValue, Remove, GetValue; in the
\* source for CopyTagIfExists), or the map the call overwrites or copies was
\* not empty (the others).
\* what a caller can observe of map m: tag -> content
View(S, m) == [t \in DOMAIN S.map_[m] |-> ContentAt(S, S.map_[m][t])]

Call(op, self, other, tag, tags, content, found, thrown) ==
  [op |-> op, self |-> self, other |-> other, tag |-> tag, tags |-> tags,
   content |-> content, found |-> found, thrown |-> thrown]

\* the operation's store, renamed, becomes the next state
Becomes(S) ==
  LET R == Then(S, Rename(S))
  IN /\ map_' = R.map_
     /\ heap' = R.heap
     /\ badAccess' = R.badAccess

\* -------------------------------------------------------------- actions
\* new DicomMap
CallConstruct(m) ==
  /\ ~alive[m]
  /\ alive' = [alive EXCEPT ![m] = TRUE]
  /\ Becomes([Store EXCEPT !.map_[m] = EmptyMap])
  /\ last' = Call("Construct", m, 0, 0, << >>, "", FALSE, FALSE)
  /\ UNCHANGED httpVars

\* delete m: the destructor clears the map
CallDestroy(m) ==
  /\ alive[m]
  /\ alive' = [alive EXCEPT ![m] = FALSE]
  /\ Becomes(Clear(Store, m))
  /\ last' = Call("Destroy", m, 0, 0, << >>, "", DOMAIN map_[m] # {}, FALSE)
  /\ UNCHANGED httpVars

\* m.SetValue(tag, new DicomString(content))
CallSetValue(m, tag, content) ==
  /\ alive[m]
  /\ LET p == NewAddress(Store)
     IN Becomes(SetValue(Allocate(Store, p, content), m, tag, p))
  /\ last' = Call("SetValue", m, 0, tag, << >>, content,
                  HasTag(Store, m, tag), FALSE)
  /\ UNCHANGED << alive, httpVars >>

CallRemove(m, tag) ==
  /\ alive[m]
  /\ Becomes(Remove(Store, m, tag))
  /\ last' = Call("Remove", m, 0, tag, << >>, "", HasTag(Store, m, tag), FALSE)
  /\ UNCHANGED << alive, httpVars >>

CallClear(m) ==
  /\ alive[m]
  /\ Becomes(Clear(Store, m))
  /\ last' = Call("Clear", m, 0, 0, << >>, "", DOMAIN map_[m] # {}, FALSE)
  /\ UNCHANGED << alive, httpVars >>

\* m2 = m.Clone()
CallClone(m, m2) ==
  /\ alive[m]
  /\ ~alive[m2]
  /\ alive' = [alive EXCEPT ![m2] = TRUE]
  /\ Becomes(Clone(Store, m, m2))
  /\ last' = Call("Clone", m, m2, 0, << >>, "", DOMAIN map_[m] # {}, FALSE)
  /\ UNCHANGED httpVars

\* m.GetValue(tag): the content read through the returned reference
CallGetValue(m, tag) ==
  /\ alive[m]
  /\ LET r == GetValue(Store, m, tag)
     IN last' = Call("GetValue", m, 0, tag, << >>,
                     IF r.thrown THEN "" ELSE ContentAt(Store, r.p),
                     HasTag(Store, m, tag), r.thrown)
  /\ UNCHANGED << map_, heap, badAccess, alive, httpVars >>

\* m.ExtractTags(r, tags, count)
CallExtractTags(m, r, tags) ==
  /\ alive[m]
  /\ alive[r]
  /\ Becomes(ExtractTags(Store, m, r, tags))
  /\ last' = Call("ExtractTags", m, r, 0, tags, "", DOMAIN map_[r] # {}, FALSE)
  /\ UNCHANGED << alive, httpVars >>

CallExtractPatientInformation(m, r) ==
  /\ alive[m]
  /\ alive[r]
  /\ Becomes(ExtractPatientInformation(Store, m, r))
  /\ last' = Call("ExtractPatientInformation", m, r, 0, patientTags, "",
                  DOMAIN map_[r] # {}, FALSE)
  /\ UNCHANGED << alive, httpVars >>

CallExtractStudyInformation(m, r) ==
  /\ alive[m]
  /\ alive[r]
  /\ Becomes(ExtractStudyInformation(Store, m, r))
  /\ last' = Call("ExtractStudyInformation", m, r, 0, studyTags, "",
                  DOMAIN map_[r] # {}, FALSE)
  /\ UNCHANGED << alive, httpVars >>

CallExtractSeriesInformation(m, r) ==
  /\ alive[m]
  /\ alive[r]
  /\ Becomes(ExtractSeriesInformation(Store, m, r))
  /\ last' = Call("ExtractSeriesInformation", m, r, 0, seriesTags, "",
                  DOMAIN map_[r] # {}, FALSE)
  /\ UNCHANGED << alive, httpVars >>

CallExtractInstanceInformation(m, r) ==
  /\ alive[m]
  /\ alive[r]
  /\ Becomes(ExtractInstanceInformation(Store, m, r))
  /\ last' = Call("ExtractInstanceInformation", m, r, 0, instanceTags, "",
                  DOMAIN map_[r] # {}, FALSE)
  /\ UNCHANGED << alive, httpVars >>

CallSetupFindPatientTemplate(r) ==
  /\ alive[r]
  /\ Becomes(SetupFindPatientTemplate(Store, r))
  /\ last' = Call("SetupFindPatientTemplate", r, 0, 0, << >>, "", 
                  DOMAIN map_[r] # {}, FALSE)
  /\ UNCHANGED << alive, httpVars >>

CallSetupFindStudyTemplate(r) ==
  /\ alive[r]
  /\ Becomes(SetupFindStudyTemplate(Store, r))
  /\ last' = Call("SetupFindStudyTemplate", r, 0, 0, << >>, "", 
                  DOMAIN map_[r] # {}, FALSE)
  /\ UNCHANGED << alive, httpVars >>

CallSetupFindSeriesTemplate(r) ==
  /\ alive[r]
  /\ Becomes(SetupFindSeriesTemplate(Store, r))
  /\ last' = Call("SetupFindSeriesTemplate", r, 0, 0, << >>, "", 
                  DOMAIN map_[r] # {}, FALSE)
  /\ UNCHANGED << alive, httpVars >>

CallSetupFindInstanceTemplate(r) ==
  /\ alive[r]
  /\ Becomes(SetupFindInstanceTemplate(Store, r))
  /\ last' = Call("SetupFindInstanceTemplate", r, 0, 0, << >>, "", 
                  DOMAIN map_[r] # {}, FALSE)
  /\ UNCHANGED << alive, httpVars >>

\* m.CopyTagIfExists(source, tag)
CallCopyTagIfExists(m, source, tag) ==
  /\ alive[m]
  /\ alive[source]
  /\ Becomes(CopyTagIfExists(Store, m, source, tag))
  /\ last' = Call("CopyTagIfExists", m, source, tag, << >>, "",
                  HasTag(Store, source, tag), FALSE)
  /\ UNCHANGED << alive, httpVars >>

\* ------------------------------------------------ FilesystemHttpHandler
\* boost::filesystem: exists, is_regular_file, is_directory
Exists(p) == p \in DOMAIN fs
IsRegularFile(p) == p \in DOMAIN fs /\ fs[p] = "file"
IsDirectory(p) == p \in DOMAIN fs /\ fs[p] = "dir"

Sent(send, path, names) == [send |-> send, path |-> path, names |-> names]

\* the entries of directory p whose status is kind
Entries(p, kind) ==
  { q[Len(q)] : q \in { x \in DOMAIN fs :
                          /\ Len(x) = Len(p) + 1
                          /\ SubSeq(x, 1, Len(p)) = p
                          /\ fs[x] = kind } }

\* OutputDirectoryContent(output, uri, p)
OutputDirectoryContent(uri, p) ==
  << Sent("OkHeader text/html", << >>, {}) >>
  \o (IF Len(uri) > 0 THEN << Sent("link ..", uri, {}) >> ELSE << >>)
  \o << Sent("links Subdirectories", uri, Entries(p, "dir")),
        Sent("links Files", uri, Entries(p, "file")) >>

\* the path Handle resolves: root_ followed by uri[baseUri_.size() ..]
Resolve(uri) ==
  pimpl_.root_ \o SubSeq(uri, Len(pimpl_.baseUri_) + 1, Len(uri))

\* Handle that lists directories whatever listDirectoryContent_ says
HandleListsAlways(method, uri) ==
  IF method # "GET"
  THEN [sent |-> << Sent("MethodNotAllowedError GET", << >>, {}) >>,
        queries |-> 0]
  ELSE LET p == Resolve(uri)
       IN IF Exists(p) /\ IsRegularFile(p)
          THEN [sent |-> << Sent("AnswerFileAutodetectContentType", p, {}) >>,
                queries |-> 2]
          ELSE IF Exists(p) /\ IsDirectory(p)
               THEN [sent |-> OutputDirectoryContent(uri, p), queries |-> 4]
               ELSE [sent |-> << Sent("Header 404", << >>, {}) >>,
                     queries |-> 1]

\* Handle(output, method, uri, ...): what is sent, and the number of
\* file-system queries the conditions made on the way (&& evaluates its right
\* side only when the left one holds)
Handle(method, uri) ==
  IF method # "GET"
  THEN [sent |-> << Sent("MethodNotAllowedError GET", << >>, {}) >>,
        queries |-> 0]
  ELSE LET p == Resolve(uri)
           first == IF Exists(p) THEN 2 ELSE 1
           second == IF ~listDirectoryContent_ THEN 0
                     ELSE IF Exists(p) THEN 2 ELSE 1
       IN IF Exists(p) /\ IsRegularFile(p)
          THEN [sent |-> << Sent("AnswerFileAutodetectContentType", p, {}) >>,
                queries |-> first]
          ELSE IF listDirectoryContent_ /\ Exists(p) /\ IsDirectory(p)
               THEN [sent |-> OutputDirectoryContent(uri, p),
                     queries |-> first + second]
               ELSE [sent |-> << Sent("Header 404", << >>, {}) >>,
                     queries |-> first + second]

\* names of files and URI components, the roots and the base URIs tried
Names == { "a", "b" }
UriNames == Names \cup { "app" }
Roots == { << "www" >>, << "tmp" >> }
BaseUris == { << >>, << "app" >> }
FsPaths == { << "www" >>, << "www", "a" >>, << "www", "b" >>,
             << "www", "a", "a" >> }
Methods == { "GET", "POST", "DELETE" }

\* a file system: every entry but the top ones lies in a directory
FileSystems ==
  { f \in UNION { [D -> { "file", "dir" }] : D \in SUBSET FsPaths } :
      \A q \in DOMAIN f :
        Len(q) > 1 => LET parent == SubSeq(q, 1, Len(q) - 1)
                      IN parent \in DOMAIN f /\ f[parent] = "dir" }

RECURSIVE Uris(_)
Uris(n) ==
  IF n = 0 THEN { << >> }
  ELSE LET shorter == Uris(n - 1)
       IN shorter \cup { Append(u, c) : u \in { x \in shorter : Len(x) = n - 1 },
                                       c \in UriNames }

NoRequest == [method |-> "", uri |-> << >>, listing |-> FALSE, queries |-> 0]

\* FilesystemHttpHandler(baseUri, root)
CallFilesystemHttpHandler(baseUri, root) ==
  /\ handler = "none"
  /\ pimpl_' = [baseUri_ |-> baseUri, root_ |-> root]
  /\ listDirectoryContent_' = FALSE
  /\ handler' = IF ~Exists(root) \/ ~IsDirectory(root) THEN "failed" ELSE "ok"
  /\ UNCHANGED << fs, request, output, dicomVars >>

\* SetListDirectoryContent(enabled)
CallSetListDirectoryContent(enabled) ==
  /\ handler = "ok"
  /\ listDirectoryContent_' = enabled
  /\ UNCHANGED << pimpl_, handler, fs, request, output, dicomVars >>

CallHandle(method, uri) ==
  /\ handler = "ok"
  /\ LET r == Handle(method, uri)
     IN /\ output' = r.sent
        /\ request' = [method |-> method, uri |-> uri,
                        listing |-> listDirectoryContent_, queries |-> r.queries]
  /\ UNCHANGED << listDirectoryContent_, pimpl_, handler, fs, dicomVars >>

InitDicom ==
  /\ map_ = [m \in Maps |-> EmptyMap]
  /\ alive = [m \in Maps |-> TRUE]
  /\ heap = EmptyMap
  /\ badAccess = FALSE
  /\ last = Call("Construct", 1, 0, 0, << >>, "", FALSE, FALSE)

InitHttp ==
  /\ listDirectoryContent_ = FALSE
  /\ pimpl_ = [baseUri_ |-> << >>, root_ |-> << >>]
  /\ handler = "none"
  /\ request = NoRequest
  /\ output = << >>

Init ==
  /\ InitDicom
  /\ InitHttp
  /\ fs = EmptyMap

\* every operation of DicomMap, over few tags and contents
Next ==
  \/ \E m \in Maps : CallConstruct(m)
  \/ \E m \in Maps : CallDestroy(m)
  \/ \E m \in Maps, tag \in FewTags, content \in FewContents :
        CallSetValue(m, tag, content)
  \/ \E m \in Maps, tag \in FewTags : CallRemove(m, tag)
  \/ \E m \in Maps : CallClear(m)
  \/ \E m \in Maps, m2 \in Maps : CallClone(m, m2)
  \/ \E m \in Maps, tag \in FewTags : CallGetValue(m, tag)
  \/ \E m \in Maps, r \in Maps, tags \in TagLists(FewTags, MaxLen) :
        CallExtractTags(m, r, tags)
  \/ \E m \in Maps, r \in Maps : CallExtractPatientInformation(m, r)
  \/ \E m \in Maps, r \in Maps : CallExtractStudyInformation(m, r)
  \/ \E m \in Maps, r \in Maps : CallExtractSeriesInformation(m, r)
  \/ \E m \in Maps, r \in Maps : CallExtractInstanceInformation(m, r)
  \/ \E r \in Maps : CallSetupFindPatientTemplate(r)
  \/ \E r \in Maps : CallSetupFindStudyTemplate(r)
  \/ \E r \in Maps : CallSetupFindSeriesTemplate(r)
  \/ \E r \in Maps : CallSetupFindInstanceTemplate(r)
  \/ \E m \in Maps, source \in Maps, tag \in FewTags :
        CallCopyTagIfExists(m, source, tag)

Spec == Init /\ [][Next]_vars

\* the container operations, over more tags, contents and tag lists
NextMap ==
  \/ \E m \in Maps : CallConstruct(m)
  \/ \E m \in Maps : CallDestroy(m)
  \/ \E m \in Maps, tag \in InputTags, content \in Contents :
        CallSetValue(m, tag, content)
  \/ \E m \in Maps, tag \in InputTags : CallRemove(m, tag)
  \/ \E m \in Maps : CallClear(m)
  \/ \E m \in Maps, m2 \in Maps : CallClone(m, m2)
  \/ \E m \in Maps, tag \in InputTags : CallGetValue(m, tag)
  \/ \E m \in Maps, r \in Maps, tags \in TagLists(InputTags, MaxLen) :
        CallExtractTags(m, r, tags)
  \/ \E m \in Maps, source \in Maps, tag \in InputTags :
        CallCopyTagIfExists(m, source, tag)

SpecMap == Init /\ [][NextMap]_vars

\* the four extractions by level, from every map a caller can have built out
\* of the scenario's values
ScenarioTags == { PATIENT_ID, STUDY_UID, SERIES_UID, MODALITY }
ScenarioContent(tag) ==
  CASE tag = PATIENT_ID -> "P1"
    [] tag = STUDY_UID -> "S1"
    [] tag = SERIES_UID -> "SE1"
    [] tag = MODALITY -> "CT"

RECURSIVE Populate(_, _, _, _)
Populate(S, m, its, i) ==
  IF i > Len(its) THEN S
  ELSE LET S1 == SetValueString(S, m, its[i], ScenarioContent(its[i]))
       IN Then(S1, Populate(S1, m, its, i + 1))

InitLevel ==
  /\ \E T \in SUBSET ScenarioTags :
       LET S == Rename(Populate([map_ |-> [m \in Maps |-> EmptyMap],
                                 heap |-> EmptyMap, badAccess |-> FALSE],
                                1, Ascending(T), 1))
       IN /\ map_ = S.map_
          /\ heap = S.heap
          /\ badAccess = S.badAccess
  /\ alive = [m \in Maps |-> TRUE]
  /\ last = Call("Construct", 1, 0, 0, << >>, "", FALSE, FALSE)
  /\ InitHttp
  /\ fs = EmptyMap

NextLevel ==
  \/ \E m \in Maps, r \in Maps : CallExtractPatientInformation(m, r)
  \/ \E m \in Maps, r \in Maps : CallExtractStudyInformation(m, r)
  \/ \E m \in Maps, r \in Maps : CallExtractSeriesInformation(m, r)
  \/ \E m \in Maps, r \in Maps : CallExtractInstanceInformation(m, r)

SpecLevel == InitLevel /\ [][NextLevel]_vars

\* the responder, over every file system of FileSystems
InitResponder ==
  /\ InitDicom
  /\ InitHttp
  /\ fs \in FileSystems

NextResponder ==
  \/ \E baseUri \in BaseUris, root \in Roots :
        CallFilesystemHttpHandler(baseUri, root)
  \/ \E enabled \in BOOLEAN : CallSetListDirectoryContent(enabled)
  \/ \E method \in Methods, uri \in Uris(MaxDepth) : CallHandle(method, uri)

SpecResponder == InitResponder /\ [][NextResponder]_vars

\* ---------------------------------------------------------- properties
\* the store after the step
StoreNext == [map_ |-> map_', heap |-> heap', badAccess |-> badAccess']

Addresses(S, m) == { S.map_[m][t] : t \in DOMAIN S.map_[m] }

\* C1: after m.ExtractTags(r, L) with r another map than m, the keys of r are
\* exactly the tags of L present in m, each with m's content; the values r held
\* before are destroyed; tags of L absent from m are skipped without error.
ExtractTagsProjects ==
  [][(last'.op = "ExtractTags" /\ last'.self # last'.other) =>
       LET m == last'.self
           r == last'.other
           L == last'.tags
       IN /\ DOMAIN map_'[r] = Range(L) \cap DOMAIN map_[m]
          /\ \A t \in DOMAIN map_'[r] :
               ContentAt(StoreNext, map_'[r][t]) = ContentAt(Store, map_[m][t])
          /\ Cardinality(DOMAIN heap') =
               Cardinality(DOMAIN heap) - Cardinality(DOMAIN map_[r])
                 + Cardinality(DOMAIN map_'[r])
          /\ Addresses(StoreNext, r) \subseteq DOMAIN heap'
          /\ Addresses(StoreNext, r) \cap Addresses(StoreNext, m) = {}
          /\ ~badAccess']_vars

\* an extraction into a map that held values, which found a tag of the list
\* and skipped another
ExtractTagsProjectsWitness ==
  /\ last.op = "ExtractTags"
  /\ last.self # last.other
  /\ last.found
  /\ DOMAIN map_[last.other] # {}
  /\ \E i \in 1..Len(last.tags) : last.tags[i] \notin DOMAIN map_[last.self]

\* C6: a map holds one entry per tag at most; after SetValue(t, v), also when
\* t already held a value, GetValue(t) yields v's content, the map has exactly
\* one entry for t and the entries of the other tags are unchanged.
SetValueReplaces ==
  [][last'.op = "SetValue" =>
       LET m == last'.self
           t == last'.tag
           r == GetValue(StoreNext, m, t)
       IN /\ ~r.thrown
          /\ ContentAt(StoreNext, r.p) = last'.content
          /\ DOMAIN map_'[m] = DOMAIN map_[m] \cup {t}
          /\ Cardinality({ s \in Slots(StoreNext) : s[2] = r.p }) = 1
          /\ \A u \in DOMAIN map_[m] \ {t} :
               ContentAt(StoreNext, map_'[m][u]) = ContentAt(Store, map_[m][u])]_vars

\* a SetValue on a tag that held a value already, in a map that holds
\* another tag too
SetValueReplacesWitness ==
  /\ last.op = "SetValue"
  /\ last.found
  /\ DOMAIN map_[last.self] \ {last.tag} # {}

\* C7: GetValue(t) throws exactly when t is absent from the map (HasTag(t) is
\* false) and otherwise returns the value stored for t; either way the map is
\* left as it was.
GetValueContract ==
  [][last'.op = "GetValue" =>
       LET m == last'.self
           t == last'.tag
       IN /\ last'.thrown <=> t \notin DOMAIN map_[m]
          /\ ~last'.thrown => last'.content = ContentAt(Store, map_[m][t])
          /\ map_' = map_
          /\ heap' = heap
          /\ badAccess' = badAccess]_vars

\* a GetValue that threw, on a map that holds another tag
GetValueContractWitness ==
  /\ last.op = "GetValue"
  /\ last.thrown
  /\ DOMAIN map_[last.self] # {}

\* C8: Remove(t) never fails; a present t is absent afterwards and every other
\* tag keeps its entry and content; an absent t leaves the map unchanged; a
\* second Remove(t) changes nothing more.
RemoveContract ==
  [][last'.op = "Remove" =>
       LET m == last'.self
           t == last'.tag
       IN /\ badAccess' = badAccess
          /\ DOMAIN map_'[m] = DOMAIN map_[m] \ {t}
          /\ \A u \in DOMAIN map_'[m] :
               ContentAt(StoreNext, map_'[m][u]) = ContentAt(Store, map_[m][u])
          /\ t \notin DOMAIN map_[m] =>
               /\ map_' = map_
               /\ heap' = heap
          /\ Rename(Remove(StoreNext, m, t)) = StoreNext]_vars

\* a Remove of a present tag from a map that keeps another one
RemoveContractWitness ==
  /\ last.op = "Remove"
  /\ last.found
  /\ DOMAIN map_[last.self] # {}

\* C4: m2 = m.Clone() has the keys and contents of m and shares no value with
\* it; SetValue, Remove and Clear on one map change nothing of what the other
\* maps show, neither right after the Clone nor later.
Mutations(S, m) ==
  { Clear(S, m) }
  \cup { Remove(S, m, t) : t \in InputTags }
  \cup { SetValueString(S, m, t, c) : t \in InputTags, c \in Contents }

CloneIndependent ==
  [][/\ last'.op = "Clone" =>
          LET m == last'.self
              m2 == last'.other
          IN /\ View(StoreNext, m2) = View(Store, m)
             /\ View(StoreNext, m) = View(Store, m)
             /\ Addresses(StoreNext, m) \cap Addresses(StoreNext, m2) = {}
             /\ \A S \in Mutations(StoreNext, m) :
                  View(S, m2) = View(StoreNext, m2)
             /\ \A S \in Mutations(StoreNext, m2) :
                  View(S, m) = View(StoreNext, m)
     /\ last'.op \in { "SetValue", "Remove", "Clear" } =>
          \A o \in Maps \ {last'.self} : View(StoreNext, o) = View(Store, o)]_vars

\* a Clone of a map that holds values
CloneIndependentWitness ==
  /\ last.op = "Clone"
  /\ last.found
  /\ DOMAIN map_[last.other] # {}

\* C2: whatever the result map held, a find template leaves it with exactly
\* the keys of its level: the level's registry and the identifying keys of the
\* levels above; every key has a value of its own, which is empty.
IsTemplate(m, keys) ==
  /\ DOMAIN map_[m] = keys
  /\ \A t \in keys : ContentAt(Store, map_[m][t]) = ""
  /\ Cardinality(Addresses(Store, m)) = Cardinality(keys)

FindTemplateKeys ==
  /\ last.op = "SetupFindPatientTemplate" =>
       IsTemplate(last.self, Range(patientTags))
  /\ last.op = "SetupFindStudyTemplate" =>
       IsTemplate(last.self,
                  Range(studyTags) \cup { ACCESSION_NUMBER, PATIENT_ID })
  /\ last.op = "SetupFindSeriesTemplate" =>
       IsTemplate(last.self,
                  Range(seriesTags)
                    \cup { ACCESSION_NUMBER, PATIENT_ID, STUDY_UID })
  /\ last.op = "SetupFindInstanceTemplate" =>
       IsTemplate(last.self,
                  Range(instanceTags)
                    \cup { ACCESSION_NUMBER, PATIENT_ID, STUDY_UID, SERIES_UID })

\* a series template built in a map that held values
FindTemplateKeysWitness ==
  /\ last.op = "SetupFindSeriesTemplate"
  /\ last.found
  /\ STUDY_UID \in DOMAIN map_[last.self]

\* C3: every value a map holds is live, no value is held by two slots or two
\* maps, and every value no map holds any more has been destroyed, once: no
\* delete hit a destroyed value and no live value is left without a holder.
ExclusiveOwnership ==
  /\ ~badAccess
  /\ \A m \in Maps : Addresses(Store, m) \subseteq DOMAIN heap
  /\ \A s1 \in Slots(Store), s2 \in Slots(Store) : s1[2] = s2[2] => s1 = s2
  /\ DOMAIN heap \subseteq UNION { Addresses(Store, m) : m \in Maps }
  /\ \A m \in Maps : ~alive[m] => DOMAIN map_[m] = {}

\* a value replaced by SetValue while another map holds values too
ExclusiveOwnershipWitness ==
  /\ last.op = "SetValue"
  /\ last.found
  /\ \A m \in Maps : DOMAIN map_[m] # {}

\* C10 as stated: an extraction leaves the source map as it was, also when the
\* output argument is the source map itself.
ExtractOps ==
  { "ExtractTags", "ExtractPatientInformation", "ExtractStudyInformation",
    "ExtractSeriesInformation", "ExtractInstanceInformation" }

ExtractionLeavesSource ==
  [][last'.op \in ExtractOps =>
       View(StoreNext, last'.self) = View(Store, last'.self)]_vars

\* C5 as stated: from the map of the scenario, ExtractSeriesInformation
\* yields Modality alone.
ScenarioMap == [t \in ScenarioTags |-> ScenarioContent(t)]

SeriesOfScenario ==
  /\ last'.op = "ExtractSeriesInformation"
  /\ last'.self # last'.other
  /\ View(Store, last'.self) = ScenarioMap

SeriesScenarioModalityOnly ==
  [][SeriesOfScenario =>
       View(StoreNext, last'.other) = [t \in { MODALITY } |-> "CT"]]_vars

\* C5, amended: from the map of the scenario, ExtractSeriesInformation yields
\* Modality = "CT" and SeriesInstanceUID = "SE1", which is in the series
\* registry; PatientID and StudyInstanceUID are absent from the result.
SeriesScenarioResult ==
  [][SeriesOfScenario =>
       View(StoreNext, last'.other) =
         [t \in { MODALITY, SERIES_UID } |-> ScenarioContent(t)]]_vars

\* the series extraction done on the scenario's map
SeriesScenarioResultWitness ==
  /\ last.op = "ExtractSeriesInformation"
  /\ last.self # last.other
  /\ View(Store, last.self) = ScenarioMap
  /\ DOMAIN map_[last.other] = { MODALITY, SERIES_UID }

\* C9: a request gets exactly one answer: method-not-allowed without a look at
\* the file system when the method is not GET; the file when the path is a
\* regular file; the listing when the path is a directory and listing is
\* enabled; not-found otherwise.  Listing is disabled after construction.
Answers ==
  { "MethodNotAllowedError GET", "AnswerFileAutodetectContentType",
    "OkHeader text/html", "Header 404" }

OneAnswer(kind) ==
  /\ output # << >>
  /\ output[1].send = kind
  /\ \A i \in 2..Len(output) : output[i].send \notin Answers

HandleOutcome ==
  request.method # "" =>
    LET p == Resolve(request.uri)
    IN IF request.method # "GET"
       THEN OneAnswer("MethodNotAllowedError GET") /\ request.queries = 0
       ELSE IF IsRegularFile(p)
            THEN /\ OneAnswer("AnswerFileAutodetectContentType")
                 /\ output[1].path = p
            ELSE IF IsDirectory(p) /\ request.listing
                 THEN /\ OneAnswer("OkHeader text/html")
                      /\ output[Len(output) - 1].names = Entries(p, "dir")
                      /\ output[Len(output)].names = Entries(p, "file")
                 ELSE output = << Sent("Header 404", << >>, {}) >>

ResponderOutcome ==
  /\ [](HandleOutcome)
  /\ [][handler = "none" /\ handler' = "ok" => ~listDirectoryContent_']_vars

\* a directory asked for while listing was disabled, answered not-found
ResponderOutcomeWitness ==
  /\ request.method = "GET"
  /\ IsDirectory(Resolve(request.uri))
  /\ Len(request.uri) > Len(pimpl_.baseUri_)
  /\ ~request.listing
  /\ output = << Sent("Header 404", << >>, {}) >>

====
